---- MODULE Spec2Model ----
(***************************************************************************)
(* Simple MMC power sequence management: drivers/mmc/core/pwrseq_simple.c  *)
(*                                                                         *)
(* The model follows the driver statement by statement.  The sequencer     *)
(* object (struct mmc_pwrseq_simple) is the record pwrseq; the clock, the  *)
(* reset lines and the regulator behind the handles are the hardware       *)
(* variables clk_count, lines and the calls recorded per operation.  The   *)
(* controller thread "host" runs the three lifecycle callbacks; the        *)
(* threads "op1" and "op2" are operators writing and reading the sysfs     *)
(* attributes; the thread "bus" is the driver core running probe and       *)
(* remove.  Every thread has a program counter named after the source      *)
(* line it stands before.                                                  *)
(***************************************************************************)
EXTENDS Integers, Sequences, FiniteSets, TLC

(***************************************************************************)
(* Bounds of the model.                                                    *)
(***************************************************************************)
\* most reset lines in one group (reset_gpios->ndescs)
MaxLines == 2
\* the clock's hardware enable count at which no further bind or
\* operation is started (an unbind never disables the clock, so re-binding
\* can stack enables without limit)
MaxClkCount == 1
\* most handlers in flight at once where they interleave
MaxConc == 2

(***************************************************************************)
(* Error pointers.  A handle is the name it was looked up by; an error     *)
(* pointer is the errno it carries.                                        *)
(***************************************************************************)
ErrCodes == {"-ENOENT", "-ENOSYS", "-EPROBE_DEFER", "-ENODEV", "-ENOMEM"}

IS_ERR(ptr) == ptr \in ErrCodes

PTR_ERR(ptr) == ptr

\* what devm_clk_get(dev, "ext_clock") can return
ClkOutcomes == {"ext_clock", "-ENOENT", "-ENOSYS", "-EPROBE_DEFER"}
\* what devm_gpiod_get_array(dev, "reset", GPIOD_OUT_HIGH) can return
GpioOutcomes == {"reset", "-ENOENT", "-ENOSYS", "-EPROBE_DEFER"}
\* what devm_regulator_get_optional(dev, "vref") can return
VrefOutcomes == {"vref", "-ENODEV"}

(***************************************************************************)
(* A u32 is held as its two 16-bit halves, so that 2 * d with d a u32     *)
(* is computed without leaving the signed 32-bit range of the integers.    *)
(***************************************************************************)
Half == 256 * 256

U32(hi, lo) == [ hi |-> hi, lo |-> lo ]

U32Zero == U32(0, 0)

\* 2 * d as the compiler computes it for a u32 d: modulo 2^32
TwiceU32(d) ==
    U32((2 * d.hi + (2 * d.lo) \div Half) % Half, (2 * d.lo) % Half)

\* values of the post-power-on-delay-ms property (0: property absent)
DelaysMs == { U32Zero, U32(0, 10) }
\* values of the power-off-delay-us property (0: property absent); the
\* last is 2^31 + 5
DelaysUs == { U32Zero, U32(0, 100), U32(32768, 5) }

\* host: the controller's thread; op1, op2: operators at the sysfs files;
\* bus: the driver core, which binds and unbinds
Threads == {"host", "op1", "op2", "bus"}
Operators == {"op1", "op2"}

(***************************************************************************)
(* Text.  A buffer is a sequence of one-character strings; the byte after  *)
(* its last character is the terminating NUL.                              *)
(***************************************************************************)
NUL == "\\0"

At(s, i) == IF i >= 1 /\ i <= Len(s) THEN s[i] ELSE NUL

RECURSIVE streq_scan(_, _, _)
streq_scan(s1, s2, i) ==
    IF At(s1, i) # NUL /\ At(s1, i) = At(s2, i)
    THEN streq_scan(s1, s2, i + 1)
    ELSE i

\* lib/string.c: equal up to NUL, or up to one trailing newline on either
sysfs_streq(s1, s2) ==
    LET i == streq_scan(s1, s2, 1)
    IN  \/ At(s1, i) = At(s2, i)
        \/ At(s1, i) = NUL /\ At(s2, i) = "\n" /\ At(s2, i + 1) = NUL
        \/ At(s1, i) = "\n" /\ At(s1, i + 1) = NUL /\ At(s2, i) = NUL

\* lines 121-126 without the return of line 126
PwrToken_ElseOff(buf) ==
    IF sysfs_streq(buf, << "o", "n" >>) \/ sysfs_streq(buf, << "1" >>)
    THEN "on"
    ELSE "off"

\* lines 121-126 of pwr_gpio_store: what the text written asks for
PwrToken(buf) ==
    IF sysfs_streq(buf, << "o", "n" >>) \/ sysfs_streq(buf, << "1" >>)
    THEN "on"
    ELSE IF sysfs_streq(buf, << "o", "f", "f" >>) \/ sysfs_streq(buf, << "0" >>)
    THEN "off"
    ELSE "none"

\* buffers written to the pwr_gpio attribute
PwrBufs ==
    { <<"o", "n">>, <<"1", "\n">>, <<"o", "f", "f", "\n">>, <<"0">>,
      <<"t", "o", "g", "g", "l", "e">>, <<"O", "N">>, <<"o">> }

\* the few of them written where writes interleave
PwrBufsFew == { <<"o", "n">>, <<"0">>, <<"o">> }

(***************************************************************************)
(* State.                                                                  *)
(***************************************************************************)
VARIABLES
    pwrseq,         \* struct mmc_pwrseq_simple (all-"NULL" while not allocated)
    bound,          \* drvdata is set: probe succeeded and remove has not run
    probe_in,       \* what the lookups and property reads of the last probe
                    \* returned ("NULL": not made)
    probe_ret,      \* what the last probe returned ("none" before any and
                    \* while one runs)
    registered,     \* the sequencer is in the controller registry
    attr_pwr_gpio,  \* the pwr_gpio file exists
    attr_vref_uV,   \* the vref_uV file exists
    clk_count,      \* hardware: the clock's enable count (running iff > 0)
    lines,          \* hardware: logical value of each reset line
    pc,             \* per thread: "idle", the source line it stands before,
                    \* or "ret": its handler has returned
    cur,            \* per thread: the operation in progress or just returned
    hist            \* history: clock calls since bind, lifecycle phase

vars == << pwrseq, bound, probe_in, probe_ret, registered, attr_pwr_gpio, attr_vref_uV,
           clk_count, lines, pc, cur, hist >>

drv == << bound, probe_in, probe_ret, registered, attr_pwr_gpio, attr_vref_uV >>

NoProbe ==
    [ kzalloc_ok |-> TRUE, clk |-> "NULL", gpios |-> "NULL", vref |-> "NULL",
      ms |-> U32Zero, us |-> U32Zero ]

NoPwrseq ==
    [ clk_enabled |-> FALSE,
      post_power_on_delay_ms |-> U32Zero,
      power_off_delay_us |-> U32Zero,
      ext_clk |-> "NULL",
      reset_gpios |-> "NULL",
      vref |-> "NULL" ]

\* a call of a primitive of the clock, GPIO, regulator, allocator or timer
Call(fn, a, b) == [ fn |-> fn, a |-> a, b |-> b ]

NoSnap == [ clk_enabled |-> FALSE, clk_count |-> 0, lines |-> << >> ]

Snap == [ clk_enabled |-> pwrseq.clk_enabled, clk_count |-> clk_count,
          lines |-> lines ]

\* op: the handler; buf: the text written; on: the handler's local;
\* calls: the primitives called so far, in order; snap: the state it
\* started from; rep: the operation before it was the same lifecycle
\* callback, which made prev_clk clock calls and (prev_skip) skipped a
\* reset-line write; ret: the value returned; out: the text emitted
NoOp ==
    [ op |-> "none", buf |-> << >>, on |-> FALSE, calls |-> << >>,
      snap |-> NoSnap, rep |-> FALSE, prev_clk |-> 0, prev_skip |-> FALSE,
      ret |-> -1, out |-> << >> ]

\* clk_bal: clock-enable calls minus clock-disable calls since bind;
\* clk_last: the last of them; clk_dbl: two of a kind have followed each
\* other; phase: OFF -> POWERING -> ON -> OFF while the lifecycle callbacks
\* have come in that order since a bind that found the clock stopped, with
\* no reset-line write skipped and no power-toggle sequence run, "none"
\* otherwise; enable_failed: in such a phase, a clock-enable call has
\* failed; prev_op, prev_clk, prev_skip: the last lifecycle callback or
\* power-toggle sequence run ("none": none or a power-toggle sequence)
NoHist ==
    [ clk_bal |-> 0, clk_last |-> "none", clk_dbl |-> FALSE,
      phase |-> "OFF", enable_failed |-> FALSE,
      prev_op |-> "none", prev_clk |-> 0, prev_skip |-> FALSE ]

AllIdle == \A t \in Threads : pc[t] = "idle"

Init ==
    /\ pwrseq = NoPwrseq
    /\ bound = FALSE
    /\ probe_in = NoProbe
    /\ probe_ret = "none"
    /\ registered = FALSE
    /\ attr_pwr_gpio = FALSE
    /\ attr_vref_uV = FALSE
    /\ clk_count = 0
    /\ lines = << >>
    /\ pc = [ t \in Threads |-> "idle" ]
    /\ cur = [ t \in Threads |-> NoOp ]
    /\ hist = NoHist

(***************************************************************************)
(* History bookkeeping (no program state).                                 *)
(***************************************************************************)
\* a call of the clock-enable ("enable") or clock-disable ("disable") primitive
HistClk(h, kind) ==
    [ h EXCEPT !.clk_bal = IF kind = "enable" THEN @ + 1 ELSE @ - 1,
               !.clk_dbl = @ \/ h.clk_last = kind,
               !.clk_last = kind ]

Log(c, calls) == [ c EXCEPT !.calls = @ \o calls ]

IsLifecycle(op) == op \in {"pre_power_on", "post_power_on", "power_off"}

ClkCalls(calls) ==
    Cardinality({ i \in 1..Len(calls) :
        calls[i].fn \in {"clk_prepare_enable", "clk_disable_unprepare"} })

Skipped(calls) ==
    \E i \in 1..Len(calls) : calls[i].fn = "bitmap_alloc" /\ calls[i].b = 0

EnableFailed(calls) ==
    \E i \in 1..Len(calls) : calls[i].fn = "clk_prepare_enable" /\ calls[i].b # 0

\* c is a power-toggle write that ran the on or the off sequence
IsToggle(c) == c.op = "pwr_gpio_store" /\ PwrToken(c.buf) # "none"

\* the history once operation c has returned to its caller
HistLeave(h, c) ==
    LET phase ==
            IF Skipped(c.calls) \/ IsToggle(c) THEN "none"
            ELSE CASE c.op = "pre_power_on" ->
                        IF h.phase = "OFF" THEN "POWERING" ELSE "none"
                   [] c.op = "post_power_on" ->
                        IF h.phase = "POWERING" THEN "ON" ELSE "none"
                   [] c.op = "power_off" ->
                        IF h.phase = "ON" THEN "OFF" ELSE "none"
                   [] OTHER -> h.phase
        track == IsLifecycle(c.op) \/ IsToggle(c)
    IN  [ h EXCEPT !.phase = phase,
                   !.enable_failed = phase # "none" /\ (@ \/ EnableFailed(c.calls)),
                   !.prev_op = IF IsLifecycle(c.op) THEN c.op
                               ELSE IF IsToggle(c) THEN "none" ELSE @,
                   !.prev_clk = IF IsLifecycle(c.op) THEN ClkCalls(c.calls)
                                ELSE IF IsToggle(c) THEN 0 ELSE @,
                   !.prev_skip = IF IsLifecycle(c.op) THEN Skipped(c.calls)
                                 ELSE IF IsToggle(c) THEN FALSE ELSE @ ]

\* the record of an operation op entered now with text buf
Enter(op, buf) ==
    LET same == IsLifecycle(op) /\ hist.prev_op = op
    IN  [ NoOp EXCEPT !.op = op, !.buf = buf, !.snap = Snap,
                      !.rep = same,
                      !.prev_clk = IF same THEN hist.prev_clk ELSE 0,
                      !.prev_skip = same /\ hist.prev_skip ]

\* thread t goes on to the statement at label, its operation now c
Goto(t, c, label, h) ==
    /\ pc' = [ pc EXCEPT ![t] = label ]
    /\ cur' = [ cur EXCEPT ![t] = c ]
    /\ hist' = h

\* thread t executes its handler's return of r
Return(t, c, r, h) == Goto(t, [ c EXCEPT !.ret = r ], "ret", h)

\* thread t is back in its caller
Leave(t) ==
    /\ pc[t] = "ret"
    /\ pc' = [ pc EXCEPT ![t] = "idle" ]
    /\ cur' = [ cur EXCEPT ![t] = NoOp ]
    /\ hist' = HistLeave(hist, cur[t])
    /\ UNCHANGED << pwrseq, drv, clk_count, lines >>

\* When thread t may enter a handler.  seq: operations run one at a time.
\* Otherwise they interleave, at most MaxConc of them at a time, and none
\* is entered once the clock calls since bind are out of balance by more
\* than MaxClkCount.
MayEnter(t, seq) ==
    /\ pc[t] = "idle"
    /\ pc["bus"] = "idle"
    /\ seq => AllIdle
    /\ ~seq => /\ Cardinality({ u \in Threads : pc[u] # "idle" }) < MaxConc
               /\ hist.clk_bal \in (0 - MaxClkCount)..MaxClkCount
               /\ clk_count <= MaxClkCount

\* whether a call of the allocator or of the clock succeeds: either, while
\* operations run one at a time; it does while they interleave
Outcomes(seq) == IF seq THEN BOOLEAN ELSE {TRUE}

(***************************************************************************)
(* Primitives of the clock, GPIO and timer subsystems, as the interfaces   *)
(* the driver calls.                                                       *)
(***************************************************************************)
RECURSIVE Pow2(_)
Pow2(n) == IF n = 0 THEN 1 ELSE 2 * Pow2(n - 1)

\* a bitmap of nvalues bits is the integer holding them
bitmap_fill(nvalues) == Pow2(nvalues) - 1

bitmap_zero(nvalues) == 0

\* line i takes bit i-1 of the bitmap
gpiod_set_array_value_cansleep(nvalues, values, ls) ==
    [ i \in 1..Len(ls) |->
        IF i <= nvalues THEN (values \div Pow2(i - 1)) % 2 ELSE ls[i] ]

\* the enable count after clk_prepare_enable (ok: it returned 0)
clk_prepare_enable(count, ok) == IF ok THEN count + 1 ELSE count

\* the enable count after clk_disable_unprepare (a disable of a clock that
\* is not enabled warns and leaves the count)
clk_disable_unprepare(count) == IF count > 0 THEN count - 1 ELSE 0

(***************************************************************************)
(* mmc_pwrseq_simple_set_gpios_value: the lines and the calls made.        *)
(* alloc_ok: bitmap_alloc returned a bitmap.                               *)
(***************************************************************************)
\* lines 38-61 with the bitmap filled whatever value is
SetGpiosValue_AlwaysFill(ps, ls, value, alloc_ok) ==
    IF ~IS_ERR(ps.reset_gpios) /\ alloc_ok
    THEN [ lines |-> gpiod_set_array_value_cansleep(Len(ls),
                                                    bitmap_fill(Len(ls)), ls),
           calls |-> << Call("bitmap_alloc", Len(ls), 1),
                        Call("gpiod_set_array_value_cansleep", Len(ls),
                             bitmap_fill(Len(ls))) >> ]
    ELSE [ lines |-> ls, calls |-> << >> ]

\* lines 38-61 with the branches of line 51 exchanged
SetGpiosValue_Inverted(ps, ls, value, alloc_ok) ==
    IF ~IS_ERR(ps.reset_gpios) /\ alloc_ok
    THEN LET values == IF value # 0 THEN bitmap_zero(Len(ls))
                                    ELSE bitmap_fill(Len(ls))
         IN  [ lines |-> gpiod_set_array_value_cansleep(Len(ls), values, ls),
               calls |-> << Call("bitmap_alloc", Len(ls), 1),
                            Call("gpiod_set_array_value_cansleep", Len(ls),
                                 values) >> ]
    ELSE [ lines |-> ls, calls |-> << >> ]

\* lines 38-61 with the lines written though the allocation failed
SetGpiosValue_WriteOnFail(ps, ls, value, alloc_ok) ==
    IF IS_ERR(ps.reset_gpios) THEN [ lines |-> ls, calls |-> << >> ]
    ELSE [ lines |-> [ i \in 1..Len(ls) |-> IF value # 0 THEN 1 ELSE 0 ],
           calls |-> IF alloc_ok
                     THEN << Call("bitmap_alloc", Len(ls), 1),
                             Call("gpiod_set_array_value_cansleep", Len(ls),
                                  IF value # 0 THEN bitmap_fill(Len(ls))
                                               ELSE bitmap_zero(Len(ls))) >>
                     ELSE << Call("bitmap_alloc", Len(ls), 0) >> ]

\* lines 38-61 without the test of line 43
SetGpiosValue_NoErrCheck(ps, ls, value, alloc_ok) ==
    LET nvalues == Len(ls)
        values == IF value # 0 THEN bitmap_fill(nvalues)
                               ELSE bitmap_zero(nvalues)
    IN  IF alloc_ok
        THEN [ lines |-> gpiod_set_array_value_cansleep(nvalues, values, ls),
               calls |-> << Call("bitmap_alloc", nvalues, 1),
                            Call("gpiod_set_array_value_cansleep",
                                 nvalues, values) >> ]
        ELSE [ lines |-> ls, calls |-> << Call("bitmap_alloc", nvalues, 0) >> ]

mmc_pwrseq_simple_set_gpios_value(ps, ls, value, alloc_ok) ==
    LET reset_gpios == ps.reset_gpios
    IN  IF ~IS_ERR(reset_gpios)
        THEN LET nvalues == Len(ls)
                 values == IF value # 0 THEN bitmap_fill(nvalues)
                                        ELSE bitmap_zero(nvalues)
             IN  IF ~alloc_ok
                 THEN [ lines |-> ls,
                        calls |-> << Call("bitmap_alloc", nvalues, 0) >> ]
                 ELSE [ lines |-> gpiod_set_array_value_cansleep(nvalues, values, ls),
                        calls |-> << Call("bitmap_alloc", nvalues, 1),
                                     Call("gpiod_set_array_value_cansleep",
                                          nvalues, values) >> ]
        ELSE [ lines |-> ls, calls |-> << >> ]

(***************************************************************************)
(* Bind and unbind.                                                        *)
(***************************************************************************)
\* probe returns err before anything is installed; devm releases the object
ProbeFails(err) ==
    /\ probe_ret' = err
    /\ pwrseq' = NoPwrseq
    /\ lines' = << >>
    /\ UNCHANGED << bound, registered, attr_pwr_gpio, attr_vref_uV, pc >>

\* line 204 with -ENOSYS tolerated as it is for the reset lines
ClkFatal_AlsoENOSYS(ext_clk) ==
    /\ IS_ERR(ext_clk)
    /\ PTR_ERR(ext_clk) # "-ENOENT"
    /\ PTR_ERR(ext_clk) # "-ENOSYS"

\* line 204: the clock lookup failed, and not because there is no clock
ClkFatal(ext_clk) == IS_ERR(ext_clk) /\ PTR_ERR(ext_clk) # "-ENOENT"

\* lines 209-211 without the test of line 211
GpiosFatal_NoENOSYS(reset_gpios) ==
    IS_ERR(reset_gpios) /\ PTR_ERR(reset_gpios) # "-ENOENT"

\* lines 209-211: the reset-line lookup failed, and not because there are
\* no lines or no GPIO support
GpiosFatal(reset_gpios) ==
    /\ IS_ERR(reset_gpios)
    /\ PTR_ERR(reset_gpios) # "-ENOENT"
    /\ PTR_ERR(reset_gpios) # "-ENOSYS"

\* mmc_pwrseq_register adds the sequencer to the registry and returns 0
mmc_pwrseq_register == "0"

\* kzalloc_ok: devm_kzalloc returned an object; clk, gpios, vref: what the
\* three lookups return; ndescs: the lines of the group; ms, us: the two
\* delay properties; pwr_ok, vref_ok: device_create_file succeeds for
\* pwr_gpio, for vref_uV
mmc_pwrseq_simple_probe(kzalloc_ok, clk, gpios, ndescs, vref, ms, us, pwr_ok, vref_ok) ==
    \/ /\ ~bound                                           \* lines 199-223
       /\ AllIdle
       /\ clk_count < MaxClkCount
       /\ LET p1 == [ NoPwrseq EXCEPT !.ext_clk = clk ]
              p2 == [ p1 EXCEPT !.reset_gpios = gpios ]
              p3 == [ p2 EXCEPT !.post_power_on_delay_ms = ms,
                                !.power_off_delay_us = us ]
              in1 == [ NoProbe EXCEPT !.kzalloc_ok = kzalloc_ok ]
              in2 == [ in1 EXCEPT !.clk = clk ]
              in3 == [ in2 EXCEPT !.gpios = gpios ]
              in4 == [ in3 EXCEPT !.vref = vref, !.ms = ms, !.us = us ]
          IN  IF ~kzalloc_ok
              THEN ProbeFails("-ENOMEM") /\ probe_in' = in1
              ELSE IF ClkFatal(p1.ext_clk)
              THEN ProbeFails(PTR_ERR(p1.ext_clk)) /\ probe_in' = in2
              ELSE IF GpiosFatal(p2.reset_gpios)
              THEN ProbeFails(PTR_ERR(p2.reset_gpios)) /\ probe_in' = in3
              ELSE /\ probe_in' = in4
                   /\ pwrseq' = p3
                   /\ lines' = IF IS_ERR(p2.reset_gpios) THEN << >>
                               ELSE [ i \in 1..ndescs |-> 1 ]  \* GPIOD_OUT_HIGH
                   /\ bound' = TRUE                         \* line 223
                   /\ probe_ret' = "none"
                   /\ pc' = [ pc EXCEPT !["bus"] = "probe_225" ]
                   /\ UNCHANGED << registered, attr_pwr_gpio, attr_vref_uV >>
       /\ hist' = [ NoHist EXCEPT !.phase = IF clk_count = 0 THEN "OFF" ELSE "none" ]
       /\ UNCHANGED << clk_count, cur >>
    \/ /\ pc["bus"] = "probe_225"                          \* result discarded
       /\ attr_pwr_gpio' = pwr_ok
       /\ pc' = [ pc EXCEPT !["bus"] = "probe_227" ]
       /\ UNCHANGED << pwrseq, bound, probe_in, probe_ret, registered,
                       attr_vref_uV, clk_count, lines, cur, hist >>
    \/ /\ pc["bus"] = "probe_227"                          \* lines 227-229
       /\ pwrseq' = [ pwrseq EXCEPT !.vref = probe_in.vref ]
       /\ attr_vref_uV' = IF ~IS_ERR(probe_in.vref) THEN vref_ok ELSE attr_vref_uV
       /\ pc' = [ pc EXCEPT !["bus"] = "probe_231" ]
       /\ UNCHANGED << bound, probe_in, probe_ret, registered, attr_pwr_gpio,
                       clk_count, lines, cur, hist >>
    \/ /\ pc["bus"] = "probe_231"
       /\ registered' = TRUE
       /\ probe_ret' = mmc_pwrseq_register
       /\ pc' = [ pc EXCEPT !["bus"] = "idle" ]
       /\ UNCHANGED << pwrseq, bound, probe_in, attr_pwr_gpio, attr_vref_uV,
                       clk_count, lines, cur, hist >>

\* probe with every outcome of its allocation, lookups, property reads
\* and file creations; once entered, its statements depend on the last
\* two only
Probe ==
    \/ /\ ~bound
       /\ \E kzalloc_ok \in BOOLEAN, clk \in ClkOutcomes, gpios \in GpioOutcomes,
             vref \in VrefOutcomes, ms \in DelaysMs, us \in DelaysUs :
              \E ndescs \in IF gpios = "reset" THEN 1..MaxLines ELSE {0} :
                  mmc_pwrseq_simple_probe(kzalloc_ok, clk, gpios, ndescs, vref,
                                          ms, us, TRUE, TRUE)
    \/ /\ bound
       /\ \E pwr_ok \in BOOLEAN, vref_ok \in BOOLEAN :
              mmc_pwrseq_simple_probe(TRUE, probe_in.clk, probe_in.gpios,
                                      Len(lines), probe_in.vref, probe_in.ms,
                                      probe_in.us, pwr_ok, vref_ok)

\* the binds of a device with no regulator and no delay configured, its
\* pwr_gpio file created
ProbePlain ==
    \E clk \in ClkOutcomes, gpios \in {"reset", "-ENOENT"} :
        mmc_pwrseq_simple_probe(TRUE, clk, gpios,
                                IF gpios = "reset" THEN MaxLines ELSE 0,
                                "-ENODEV", U32Zero, U32Zero, TRUE, TRUE)

mmc_pwrseq_simple_remove ==
    \/ /\ bound                                            \* line 238
       /\ AllIdle
       /\ registered' = FALSE                               \* mmc_pwrseq_unregister
       /\ pc' = [ pc EXCEPT !["bus"] = "remove_240" ]
       /\ UNCHANGED << pwrseq, bound, probe_in, probe_ret, attr_pwr_gpio,
                       attr_vref_uV, clk_count, lines, cur, hist >>
    \/ /\ pc["bus"] = "remove_240"                         \* lines 240-244
       /\ attr_pwr_gpio' = FALSE
       /\ attr_vref_uV' = IF ~IS_ERR(pwrseq.vref) THEN FALSE ELSE attr_vref_uV
       /\ bound' = FALSE
       /\ pwrseq' = NoPwrseq                                \* released by devm
       /\ lines' = << >>
       /\ pc' = [ pc EXCEPT !["bus"] = "idle" ]
       /\ hist' = NoHist
       /\ UNCHANGED << probe_in, probe_ret, registered, clk_count, cur >>

(***************************************************************************)
(* The lifecycle callbacks, run by the controller's thread.                *)
(***************************************************************************)
\* line 67 with its test of clk_enabled inverted
NeedsEnable_FlagInverted(ps) == ~IS_ERR(ps.ext_clk) /\ ps.clk_enabled

\* line 67 without its test of clk_enabled
NeedsEnable_NoFlag(ps) == ~IS_ERR(ps.ext_clk)

\* line 67 and line 129: the clock is there and the flag says it is off
NeedsEnable(ps) == ~IS_ERR(ps.ext_clk) /\ ~ps.clk_enabled

\* line 95 without its test of clk_enabled
NeedsDisable_NoFlag(ps) == ~IS_ERR(ps.ext_clk)

\* line 95 and line 141: the clock is there and the flag says it is on
NeedsDisable(ps) == ~IS_ERR(ps.ext_clk) /\ ps.clk_enabled

\* the statement clk_prepare_enable(pwrseq->ext_clk), its result discarded
StmtEnable(t, ok, label) ==
    /\ clk_count' = clk_prepare_enable(clk_count, ok)
    /\ Goto(t, Log(cur[t], << Call("clk_prepare_enable", 0, IF ok THEN 0 ELSE -1) >>),
            label, HistClk(hist, "enable"))
    /\ UNCHANGED << pwrseq, drv, lines >>

\* the statement clk_disable_unprepare(pwrseq->ext_clk)
StmtDisable(t, label) ==
    /\ clk_count' = clk_disable_unprepare(clk_count)
    /\ Goto(t, Log(cur[t], << Call("clk_disable_unprepare", 0, 0) >>),
            label, HistClk(hist, "disable"))
    /\ UNCHANGED << pwrseq, drv, lines >>

\* the calls of "if (delay) msleep(delay)"
\* lines 81-82 without the sleep
SleepMs_None(ps) == << >>

SleepMs(ps) ==
    IF ps.post_power_on_delay_ms # U32Zero
    THEN << Call("msleep", ps.post_power_on_delay_ms, U32Zero) >>
    ELSE << >>

\* lines 91-93 without the sleep
SleepUs_None(ps) == << >>

\* the calls of "if (delay) usleep_range(delay, 2 * delay)"
SleepUs(ps) ==
    IF ps.power_off_delay_us # U32Zero
    THEN << Call("usleep_range", ps.power_off_delay_us,
                 TwiceU32(ps.power_off_delay_us)) >>
    ELSE << >>

\* lines 139-140 without the sleep
StoreSleepUs_None(ps) == << >>

\* lines 139-140: the same statement in the off branch of pwr_gpio_store
StoreSleepUs(ps) == SleepUs(ps)

mmc_pwrseq_simple_pre_power_on(seq) ==
    LET t == "host"
    IN  \/ /\ MayEnter(t, seq) /\ registered                \* called; line 67
           /\ Goto(t, Enter("pre_power_on", << >>),
                   IF NeedsEnable(pwrseq) THEN "pre_68" ELSE "pre_72", hist)
           /\ UNCHANGED << pwrseq, drv, clk_count, lines >>
        \/ /\ pc[t] = "pre_68"
           /\ \E ok \in Outcomes(seq) : StmtEnable(t, ok, "pre_69")
        \/ /\ pc[t] = "pre_69"
           /\ pwrseq' = [ pwrseq EXCEPT !.clk_enabled = TRUE ]
           /\ Goto(t, cur[t], "pre_72", hist)
           /\ UNCHANGED << drv, clk_count, lines >>
        \/ /\ pc[t] = "pre_72"
           /\ \E alloc_ok \in Outcomes(seq) :
                LET g == mmc_pwrseq_simple_set_gpios_value(pwrseq, lines, 1, alloc_ok)
                IN  /\ lines' = g.lines
                    /\ Return(t, Log(cur[t], g.calls), -1, hist)
           /\ UNCHANGED << pwrseq, drv, clk_count >>

\* lines 75-83 with clk_enabled cleared before the return
PostPowerOn_ClearsFlag(seq) ==
    LET t == "host"
    IN  \/ /\ MayEnter(t, seq) /\ registered
           /\ \E alloc_ok \in Outcomes(seq) :
                LET g == mmc_pwrseq_simple_set_gpios_value(pwrseq, lines, 0, alloc_ok)
                IN  /\ lines' = g.lines
                    /\ Goto(t, Log(Enter("post_power_on", << >>), g.calls),
                            "post_81", hist)
           /\ UNCHANGED << pwrseq, drv, clk_count >>
        \/ /\ pc[t] = "post_81"
           /\ pwrseq' = [ pwrseq EXCEPT !.clk_enabled = FALSE ]
           /\ Return(t, Log(cur[t], SleepMs(pwrseq)), -1, hist)
           /\ UNCHANGED << drv, clk_count, lines >>

mmc_pwrseq_simple_post_power_on(seq) ==
    LET t == "host"
    IN  \/ /\ MayEnter(t, seq) /\ registered                \* called; line 79
           /\ \E alloc_ok \in Outcomes(seq) :
                LET g == mmc_pwrseq_simple_set_gpios_value(pwrseq, lines, 0, alloc_ok)
                IN  /\ lines' = g.lines
                    /\ Goto(t, Log(Enter("post_power_on", << >>), g.calls),
                            "post_81", hist)
           /\ UNCHANGED << pwrseq, drv, clk_count >>
        \/ /\ pc[t] = "post_81"
           /\ Return(t, Log(cur[t], SleepMs(pwrseq)), -1, hist)
           /\ UNCHANGED << pwrseq, drv, clk_count, lines >>

mmc_pwrseq_simple_power_off(seq) ==
    LET t == "host"
    IN  \/ /\ MayEnter(t, seq) /\ registered                \* called; line 89
           /\ \E alloc_ok \in Outcomes(seq) :
                LET g == mmc_pwrseq_simple_set_gpios_value(pwrseq, lines, 1, alloc_ok)
                IN  /\ lines' = g.lines
                    /\ Goto(t, Log(Enter("power_off", << >>), g.calls),
                            "off_91", hist)
           /\ UNCHANGED << pwrseq, drv, clk_count >>
        \/ /\ pc[t] = "off_91"                              \* lines 91-95
           /\ IF NeedsDisable(pwrseq)
              THEN Goto(t, Log(cur[t], SleepUs(pwrseq)), "off_96", hist)
              ELSE Return(t, Log(cur[t], SleepUs(pwrseq)), -1, hist)
           /\ UNCHANGED << pwrseq, drv, clk_count, lines >>
        \/ /\ pc[t] = "off_96"
           /\ StmtDisable(t, "off_97")
        \/ /\ pc[t] = "off_97"
           /\ pwrseq' = [ pwrseq EXCEPT !.clk_enabled = FALSE ]
           /\ Return(t, cur[t], -1, hist)
           /\ UNCHANGED << drv, clk_count, lines >>

(***************************************************************************)
(* The pwr_gpio attribute, read and written by operators.                  *)
(***************************************************************************)
\* sysfs_emit(buf, "%s\n", s): the text emitted; its length is returned
EmitStr(s) == s \o << "\n" >>

pwr_gpio_show(t, seq) ==
    /\ MayEnter(t, seq) /\ attr_pwr_gpio
    /\ LET out == EmitStr(IF pwrseq.clk_enabled THEN << "o", "n" >>
                                                ELSE << "o", "f", "f" >>)
       IN  Return(t, [ Enter("pwr_gpio_show", << >>) EXCEPT !.out = out ],
                  Len(out), hist)
    /\ UNCHANGED << pwrseq, drv, clk_count, lines >>

pwr_gpio_store(t, buf, seq) ==
    LET count == Len(buf)
        c0 == Enter("pwr_gpio_store", buf)
    IN  \/ /\ MayEnter(t, seq) /\ attr_pwr_gpio            \* called; lines 121-126
           /\ IF PwrToken(buf) = "on"
              THEN /\ Goto(t, [ c0 EXCEPT !.on = TRUE ],    \* line 129
                           IF NeedsEnable(pwrseq) THEN "st_130" ELSE "st_133", hist)
                   /\ UNCHANGED lines
              ELSE IF PwrToken(buf) = "off"
              THEN \E alloc_ok \in Outcomes(seq) :                \* line 138
                     LET g == mmc_pwrseq_simple_set_gpios_value(pwrseq, lines, 1, alloc_ok)
                     IN  /\ lines' = g.lines
                         /\ Goto(t, Log([ c0 EXCEPT !.on = FALSE ], g.calls),
                                 "st_139", hist)
              ELSE /\ Return(t, c0, count, hist)            \* line 126
                   /\ UNCHANGED lines
           /\ UNCHANGED << pwrseq, drv, clk_count >>
        \/ /\ pc[t] = "st_130" /\ cur[t].buf = buf
           /\ \E ok \in Outcomes(seq) : StmtEnable(t, ok, "st_131")
        \/ /\ pc[t] = "st_131" /\ cur[t].buf = buf
           /\ pwrseq' = [ pwrseq EXCEPT !.clk_enabled = TRUE ]
           /\ Goto(t, cur[t], "st_133", hist)
           /\ UNCHANGED << drv, clk_count, lines >>
        \/ /\ pc[t] = "st_133" /\ cur[t].buf = buf
           /\ \E alloc_ok \in Outcomes(seq) :
                LET g == mmc_pwrseq_simple_set_gpios_value(pwrseq, lines, 1, alloc_ok)
                IN  /\ lines' = g.lines
                    /\ Goto(t, Log(cur[t], g.calls), "st_134", hist)
           /\ UNCHANGED << pwrseq, drv, clk_count >>
        \/ /\ pc[t] = "st_134" /\ cur[t].buf = buf
           /\ \E alloc_ok \in Outcomes(seq) :
                LET g == mmc_pwrseq_simple_set_gpios_value(pwrseq, lines, 0, alloc_ok)
                IN  /\ lines' = g.lines
                    /\ Goto(t, Log(cur[t], g.calls), "st_135", hist)
           /\ UNCHANGED << pwrseq, drv, clk_count >>
        \/ /\ pc[t] = "st_135" /\ cur[t].buf = buf
           /\ Return(t, Log(cur[t], SleepMs(pwrseq)), count, hist)
           /\ UNCHANGED << pwrseq, drv, clk_count, lines >>
        \/ /\ pc[t] = "st_139" /\ cur[t].buf = buf          \* lines 139-141
           /\ IF NeedsDisable(pwrseq)
              THEN Goto(t, Log(cur[t], StoreSleepUs(pwrseq)), "st_142", hist)
              ELSE Return(t, Log(cur[t], StoreSleepUs(pwrseq)), count, hist)
           /\ UNCHANGED << pwrseq, drv, clk_count, lines >>
        \/ /\ pc[t] = "st_142" /\ cur[t].buf = buf
           /\ StmtDisable(t, "st_143")
        \/ /\ pc[t] = "st_143" /\ cur[t].buf = buf
           /\ pwrseq' = [ pwrseq EXCEPT !.clk_enabled = FALSE ]
           /\ Return(t, cur[t], count, hist)
           /\ UNCHANGED << drv, clk_count, lines >>

(***************************************************************************)
(* Numbers in text.  A 64-bit value is its four 16-bit limbs, lowest       *)
(* first; a long is a sign and the magnitude.                              *)
(***************************************************************************)
Digits == {"0", "1", "2", "3", "4", "5", "6", "7", "8", "9"}

DigitVal(ch) ==
    CASE ch = "0" -> 0 [] ch = "1" -> 1 [] ch = "2" -> 2 [] ch = "3" -> 3
      [] ch = "4" -> 4 [] ch = "5" -> 5 [] ch = "6" -> 6 [] ch = "7" -> 7
      [] ch = "8" -> 8 [] ch = "9" -> 9

isdigit(ch) == ch \in Digits

isspace(ch) == ch \in {" ", "\t", "\n", "\r", "\f"}

Zero64 == << 0, 0, 0, 0 >>

\* v * 10 + d in 64 bits, and whether it overflowed them
MulAdd10(v, d) ==
    LET t0 == v[1] * 10 + d
        t1 == v[2] * 10 + t0 \div Half
        t2 == v[3] * 10 + t1 \div Half
        t3 == v[4] * 10 + t2 \div Half
    IN  [ v |-> << t0 % Half, t1 % Half, t2 % Half, t3 % Half >>,
          ovf |-> t3 \div Half # 0 ]

\* _parse_integer: the digits of s from position i on; n: how many
RECURSIVE parse_integer(_, _, _, _, _)
parse_integer(s, i, v, ovf, n) ==
    IF isdigit(At(s, i))
    THEN LET r == MulAdd10(v, DigitVal(At(s, i)))
         IN  parse_integer(s, i + 1, r.v, ovf \/ r.ovf, n + 1)
    ELSE [ v |-> v, ovf |-> ovf, n |-> n ]

\* kstrtol(s, 10, &res) on a 64-bit build: ret 0 and res, or an errno
kstrtol(s) ==
    LET neg == At(s, 1) = "-"
        start == IF neg \/ At(s, 1) = "+" THEN 2 ELSE 1
        p == parse_integer(s, start, Zero64, FALSE, 0)
        end == start + p.n
        rest == IF At(s, end) = "\n" THEN end + 1 ELSE end
        bad(e) == [ ret |-> e, res |-> [ neg |-> FALSE, v |-> Zero64 ] ]
    IN  IF p.ovf THEN bad(-34)
        ELSE IF p.n = 0 THEN bad(-22)
        ELSE IF At(s, rest) # NUL THEN bad(-22)
        ELSE IF neg /\ (p.v[4] > 32768 \/
                        (p.v[4] = 32768 /\ << p.v[1], p.v[2], p.v[3] >> # << 0, 0, 0 >>))
        THEN bad(-34)
        ELSE IF ~neg /\ p.v[4] >= 32768 THEN bad(-34)
        ELSE [ ret |-> 0, res |-> [ neg |-> neg, v |-> p.v ] ]

RECURSIVE skip_spaces(_, _)
skip_spaces(s, i) == IF isspace(At(s, i)) THEN skip_spaces(s, i + 1) ELSE i

\* one %ld conversion of vsscanf at position i: whether it converted, the
\* value (digits beyond 64 bits wrap) and where it stopped
ScanLong(s, i) ==
    LET j == skip_spaces(s, i)
        neg == At(s, j) = "-"
        digit == IF neg THEN At(s, j + 1) ELSE At(s, j)
        p == parse_integer(s, IF neg THEN j + 1 ELSE j, Zero64, FALSE, 0)
    IN  IF At(s, i) = NUL \/ ~isdigit(digit)
        THEN [ ok |-> FALSE, res |-> [ neg |-> FALSE, v |-> Zero64 ], next |-> i ]
        ELSE [ ok |-> TRUE, res |-> [ neg |-> neg, v |-> p.v ],
               next |-> (IF neg THEN j + 1 ELSE j) + p.n ]

\* sscanf(buf, "%ld %ld", &min_uV, &max_uV): the count and the two values
sscanf_ld_ld(s) ==
    LET c1 == ScanLong(s, 1)
        c2 == ScanLong(s, skip_spaces(s, c1.next))
    IN  IF ~c1.ok THEN [ ret |-> 0, min |-> c1.res, max |-> c1.res ]
        ELSE IF ~c2.ok THEN [ ret |-> 1, min |-> c1.res, max |-> c2.res ]
        ELSE [ ret |-> 2, min |-> c1.res, max |-> c2.res ]

\* (int)x for a long x: its low 32 bits, read as two's complement
IntOfLong(x) ==
    LET lo == IF x.neg THEN (Half - x.v[1]) % Half ELSE x.v[1]
        hi == IF x.neg
              THEN (Half - 1 - x.v[2] + (IF x.v[1] = 0 THEN 1 ELSE 0)) % Half
              ELSE x.v[2]
    IN  IF hi >= 32768 THEN (hi - Half) * Half + lo ELSE hi * Half + lo

RECURSIVE FmtNat(_)
FmtNat(n) ==
    LET d == << "0", "1", "2", "3", "4", "5", "6", "7", "8", "9" >>[(n % 10) + 1]
    IN  IF n < 10 THEN << d >> ELSE FmtNat(n \div 10) \o << d >>

DigitChar(n) == << "0", "1", "2", "3", "4", "5", "6", "7", "8", "9" >>[n + 1]

\* "%d" of an int
FmtInt(n) ==
    IF n >= 0 THEN FmtNat(n)
    ELSE LET d == (10 - (n % 10)) % 10
             r == 0 - ((n + d) \div 10)
         IN  << "-" >> \o (IF r = 0 THEN << >> ELSE FmtNat(r)) \o << DigitChar(d) >>

(***************************************************************************)
(* The vref_uV attribute.                                                  *)
(***************************************************************************)
\* what regulator_get_voltage can return: a voltage or an errno
VoltagesRead == { 3300000, -22 }

vref_uV_show(t, seq) ==
    /\ MayEnter(t, seq) /\ attr_vref_uV
    /\ LET c0 == Enter("vref_uV_show", << >>)
       IN  IF IS_ERR(pwrseq.vref)
           THEN Return(t, [ c0 EXCEPT !.out = << "n", "a", "\n" >> ], 3, hist)
           ELSE \E uV \in VoltagesRead :
                  LET out == FmtInt(uV) \o << "\n" >>
                  IN  Return(t, [ Log(c0, << Call("regulator_get_voltage", 0, uV) >>)
                                    EXCEPT !.out = out ], Len(out), hist)
    /\ UNCHANGED << pwrseq, drv, clk_count, lines >>

vref_uV_store(t, buf, seq) ==
    /\ MayEnter(t, seq) /\ attr_vref_uV
    /\ LET count == Len(buf)
           c0 == Enter("vref_uV_store", buf)
           k == kstrtol(buf)
           sc == sscanf_ld_ld(buf)
           set(min_uV, max_uV) ==
               << Call("regulator_set_voltage", IntOfLong(min_uV), IntOfLong(max_uV)) >>
       IN  IF IS_ERR(pwrseq.vref)
           THEN Return(t, c0, count, hist)
           ELSE IF k.ret = 0
           THEN Return(t, Log(c0, set(k.res, k.res)), count, hist)
           ELSE IF sc.ret = 2
           THEN Return(t, Log(c0, set(sc.min, sc.max)), count, hist)
           ELSE Return(t, c0, count, hist)
    /\ UNCHANGED << pwrseq, drv, clk_count, lines >>

\* buffers written to the vref_uV attribute: one integer
VrefOne ==
    { << "5" >>,
      << "3", "3", "0", "0", "0", "0", "0", "\n" >>,
      << "-", "5" >>,
      << "+", "7" >>,
      << "4", "2", "9", "4", "9", "6", "7", "3", "0", "1" >>,
      << "9", "9", "9", "9", "9", "9", "9", "9", "9", "9",
         "9", "9", "9", "9", "9", "9", "9", "9", "9", "9" >> }

\* two integers with one space between them
VrefTwo ==
    { << "1", "8", "0", "0", "0", "0", "0", " ", "2", "0", "0", "0", "0", "0", "0" >>,
      << "5", " ", "7", "\n" >>,
      << "-", "5", " ", "7" >>,
      << "5", " ", "4", "2", "9", "4", "9", "6", "7", "3", "0", "1" >> }

\* anything else
VrefOther ==
    { << "a", "b", "c" >>,
      << "5", " " >>,
      << " ", "5" >>,
      << "5", "x" >>,
      << "\n" >>,
      << "5", " ", "7", " ", "9" >>,
      << "5", " ", "7", "x" >>,
      << "5", "-", "3" >>,
      << "5", "\t", "7" >> }

VrefBufs == VrefOne \cup VrefTwo \cup VrefOther

\* the few of them written while the power sequences run as well
VrefBufsFew == { << "5" >>, << "5", " ", "7", "\n" >>, << "a", "b", "c" >> }

(***************************************************************************)
(* Specifications.  Spec: the operations run one at a time.                *)
(***************************************************************************)
Lifecycle(seq) ==
    \/ mmc_pwrseq_simple_pre_power_on(seq)
    \/ mmc_pwrseq_simple_post_power_on(seq)
    \/ mmc_pwrseq_simple_power_off(seq)

PwrGpio(seq) ==
    \E t \in IF seq THEN {"op1"} ELSE Operators :
        \/ pwr_gpio_show(t, seq)
        \/ \E buf \in IF seq THEN PwrBufs ELSE PwrBufsFew :
              pwr_gpio_store(t, buf, seq)

VrefUV(bufs) ==
    \/ vref_uV_show("op1", TRUE)
    \/ \E buf \in bufs : vref_uV_store("op1", buf, TRUE)

Next ==
    \/ Probe
    \/ mmc_pwrseq_simple_remove
    \/ Lifecycle(TRUE)
    \/ PwrGpio(TRUE)
    \/ VrefUV(VrefBufsFew)
    \/ \E t \in Threads : Leave(t)

Spec == Init /\ [][Next]_vars

\* SpecConc: the operators' writes and reads interleave, statement by
\* statement, with each other and with the controller's callbacks
NextConc ==
    \/ ProbePlain
    \/ mmc_pwrseq_simple_remove
    \/ Lifecycle(FALSE)
    \/ PwrGpio(FALSE)
    \/ \E t \in Threads : Leave(t)

SpecConc == Init /\ [][NextConc]_vars

\* SpecVref: binds, unbinds and the reads and writes of vref_uV, with the
\* full set of texts written
NextVref ==
    \/ Probe
    \/ mmc_pwrseq_simple_remove
    \/ VrefUV(VrefBufs)
    \/ Leave("op1")

SpecVref == Init /\ [][NextVref]_vars

(***************************************************************************)
(* The properties.                                                         *)
(***************************************************************************)
HasClk == bound /\ ~IS_ERR(pwrseq.ext_clk)

HasGpios == bound /\ ~IS_ERR(pwrseq.reset_gpios)

AllLines(ls, v) == \A i \in 1..Len(ls) : ls[i] = v

\* no handler is part-way through its statements
BetweenOps == \A t \in Threads : pc[t] \in {"idle", "ret"}

\* thread t has just returned from handler op
Returned(t, op) == pc[t] = "ret" /\ cur[t].op = op

\* C1: with the operations run one at a time, the clock is never enabled
\* twice with no disable in between nor disabled twice with no enable in
\* between, and between operations the enable calls made since bind
\* exceed the disable calls by one when clk_enabled is true and by none
\* when it is false.
C1_ClockCallsAlternate ==
    bound =>
        /\ ~hist.clk_dbl
        /\ hist.clk_bal \in {0, 1}
        /\ BetweenOps =>
              hist.clk_bal = IF pwrseq.clk_enabled THEN 1 ELSE 0

\* pre-power-on has run twice in a row on a bound clock, and the clock
\* has been enabled once
C1_Witness ==
    /\ HasClk
    /\ Returned("host", "pre_power_on")
    /\ cur["host"].rep
    /\ pwrseq.clk_enabled
    /\ hist.clk_bal = 1

\* what the standard cycle leaves behind once the callback that brought
\* the sequencer into hist.phase has returned
CycleEndState ==
    /\ hist.phase = "POWERING" =>
          clk_count > 0 /\ pwrseq.clk_enabled /\ AllLines(lines, 1)
    /\ hist.phase = "ON" => clk_count > 0 /\ AllLines(lines, 0)
    /\ hist.phase = "OFF" /\ hist.prev_op = "power_off" =>
          AllLines(lines, 1) /\ clk_count = 0 /\ ~pwrseq.clk_enabled

Idempotent(c) ==
    /\ pwrseq.clk_enabled = c.snap.clk_enabled
    /\ clk_count = c.snap.clk_count
    /\ lines = c.snap.lines
    /\ c.op = "pre_power_on" =>
          /\ HasClk => pwrseq.clk_enabled
          /\ c.prev_clk + ClkCalls(c.calls) <= 1
    /\ c.op = "power_off" =>
          /\ ~pwrseq.clk_enabled
          /\ c.prev_clk + ClkCalls(c.calls) <= 1

DrivesLow(calls) ==
    \E i \in 1..Len(calls) :
        /\ calls[i].fn = "gpiod_set_array_value_cansleep"
        /\ calls[i].a > 0
        /\ calls[i].b = 0

InPrePowerOn == cur["host"].op = "pre_power_on"

\* no operator is inside a power-toggle sequence
NoToggleRunning == \A t \in Operators : ~IsToggle(cur[t])

\* C4: pre-power-on drives the reset lines to 1 and never to 0: lines
\* asserted when it starts stay asserted while it runs, and in the
\* standard cycle they stay asserted from its start until post-power-on
\* begins; of the lifecycle callbacks only post-power-on drives them to 0.
C4_ResetHeldUntilPost ==
    /\ cur["host"].op # "post_power_on" => ~DrivesLow(cur["host"].calls)
    /\ InPrePowerOn /\ AllLines(cur["host"].snap.lines, 1) =>
          AllLines(lines, 1)
    /\ HasGpios /\ hist.phase = "POWERING" /\ pc["host"] = "idle"
          /\ NoToggleRunning
       => AllLines(lines, 1)

\* pre-power-on has enabled the clock and written 1 to every reset line
C4_Witness ==
    /\ HasClk /\ HasGpios
    /\ Returned("host", "pre_power_on")
    /\ hist.phase = "OFF"
    /\ \E i \in 1..Len(cur["host"].calls) :
          /\ cur["host"].calls[i].fn = "gpiod_set_array_value_cansleep"
          /\ cur["host"].calls[i].b = bitmap_fill(Len(lines))
    /\ ClkCalls(cur["host"].calls) = 1
    /\ Len(lines) > 0
    /\ AllLines(lines, 1)

\* C5 as stated: when the operations interleave, the clock is still never
\* enabled twice with no disable in between nor disabled twice with no
\* enable in between.
C5_Original == bound => ~hist.clk_dbl

CallsOf(fns) ==
    { t \in Threads :
        \E i \in 1..Len(cur[t].calls) : cur[t].calls[i].fn \in fns }

\* C6: what was not found at bind is never touched: with no clock,
\* clk_enabled stays false and no clock call is made; with no reset-line
\* group no reset-line write is made; with no regulator no voltage is set,
\* a voltage read gives "na" and a voltage write returns the length of
\* the text written.
C6_AbsentNeverTouched ==
    bound =>
        /\ IS_ERR(pwrseq.ext_clk) =>
              /\ ~pwrseq.clk_enabled
              /\ hist.clk_last = "none"
              /\ CallsOf({"clk_prepare_enable", "clk_disable_unprepare"}) = {}
        /\ IS_ERR(pwrseq.reset_gpios) =>
              CallsOf({"bitmap_alloc", "gpiod_set_array_value_cansleep"}) = {}
        /\ IS_ERR(pwrseq.vref) =>
              /\ CallsOf({"regulator_set_voltage", "regulator_get_voltage"}) = {}
              /\ \A t \in Threads :
                    /\ Returned(t, "vref_uV_show") =>
                          cur[t].out = << "n", "a", "\n" >>
                    /\ Returned(t, "vref_uV_store") =>
                          cur[t].ret = Len(cur[t].buf)

\* with no clock, no reset lines and no regulator, an on write after a
\* pre-power-on has returned having called nothing
C6_Witness ==
    /\ bound
    /\ IS_ERR(pwrseq.ext_clk) /\ IS_ERR(pwrseq.reset_gpios) /\ IS_ERR(pwrseq.vref)
    /\ hist.prev_op = "pre_power_on"
    /\ Returned("op1", "pwr_gpio_store")
    /\ PwrToken(cur["op1"].buf) = "on"
    /\ cur["op1"].calls = << >>
    /\ cur["op1"].ret = Len(cur["op1"].buf)

Handles == {"ext_clock", "reset", "vref"}

\* the lookup outcomes C7 lists: a handle, absent, unsupported (a
\* regulator that is absent is reported as -ENODEV); "NULL": the bind
\* ended before it made the lookup
Listed == Handles \cup {"-ENOENT", "-ENOSYS", "-ENODEV", "NULL"}

Probed == probe_ret # "none" /\ probe_in.kzalloc_ok

BindSucceeded ==
    /\ probe_ret = mmc_pwrseq_register
    /\ bound /\ pc["bus"] = "idle" => registered

\* C7 as stated: whenever each of the three lookups gives a handle, absent
\* or unsupported, bind succeeds: it reaches registration and returns its
\* result.
C7_Original ==
    /\ Probed
    /\ probe_in.clk \in Listed
    /\ probe_in.gpios \in Listed
    /\ probe_in.vref \in Listed
    => BindSucceeded

\* C7 amended: bind succeeds whenever the clock lookup gives a handle or
\* absent, the reset-line lookup gives a handle, absent or unsupported,
\* and the sequencer object could be allocated, whatever the regulator
\* lookup gives; a clock lookup that fails in any other way, unsupported
\* included, fails the bind with that error.
C7_BindTolerates ==
    Probed =>
        /\ probe_in.clk \in {"ext_clock", "-ENOENT"}
              /\ probe_in.gpios \in {"reset", "-ENOENT", "-ENOSYS"}
           => BindSucceeded
        /\ probe_in.clk \notin {"ext_clock", "-ENOENT"} =>
              probe_ret = probe_in.clk /\ ~bound

\* a bind that found no clock, no GPIO support and no regulator
C7_Witness ==
    /\ bound /\ registered
    /\ probe_ret = mmc_pwrseq_register
    /\ probe_in.clk = "-ENOENT"
    /\ probe_in.gpios = "-ENOSYS"
    /\ IS_ERR(probe_in.vref)

\* the text written, less one newline at its end
Word(buf) ==
    IF Len(buf) > 0 /\ buf[Len(buf)] = "\n"
    THEN SubSeq(buf, 1, Len(buf) - 1)
    ELSE buf

OnWords == { << "o", "n" >>, << "1" >> }

OffWords == { << "o", "f", "f" >>, << "0" >> }

\* C8 as stated: a manual on write ends with the clock enabled (when
\* there is one) and the reset lines at 0; a manual off write ends with
\* the reset lines at 1, the clock disabled and clk_enabled false; each
\* returns the length of the text written.  Stated for the writes during
\* which no allocation and no clock-enable call fails.
C8_Original ==
    \A t \in Operators :
        /\ Returned(t, "pwr_gpio_store")
        /\ ~Skipped(cur[t].calls) /\ ~EnableFailed(cur[t].calls)
        => /\ Word(cur[t].buf) \in OnWords =>
                /\ HasClk => clk_count > 0
                /\ AllLines(lines, 0)
                /\ cur[t].ret = Len(cur[t].buf)
           /\ Word(cur[t].buf) \in OffWords =>
                /\ AllLines(lines, 1)
                /\ HasClk => clk_count = 0
                /\ ~pwrseq.clk_enabled
                /\ cur[t].ret = Len(cur[t].buf)

\* C9: a manual write of a word that is none of on, 1, off, 0 changes
\* nothing, calls nothing and returns the length of the text written.
C9_UnrecognisedIsNoOp ==
    \A t \in Operators :
        /\ Returned(t, "pwr_gpio_store")
        /\ Word(cur[t].buf) \notin OnWords \cup OffWords
        => /\ pwrseq.clk_enabled = cur[t].snap.clk_enabled
           /\ clk_count = cur[t].snap.clk_count
           /\ lines = cur[t].snap.lines
           /\ cur[t].calls = << >>
           /\ cur[t].ret = Len(cur[t].buf)

\* "toggle" has been written while the clock was on and the lines at 0
C9_Witness ==
    /\ HasClk /\ HasGpios
    /\ Returned("op1", "pwr_gpio_store")
    /\ cur["op1"].buf = << "t", "o", "g", "g", "l", "e" >>
    /\ pwrseq.clk_enabled /\ clk_count > 0
    /\ Len(lines) > 0 /\ AllLines(lines, 0)
    /\ cur["op1"].ret = 6

\* txt is an integer in decimal: an optional sign, then digits
IsInt(txt) ==
    /\ Len(txt) > 0
    /\ LET body == IF txt[1] \in {"+", "-"} THEN Tail(txt) ELSE txt
       IN  Len(body) > 0 /\ \A i \in 1..Len(body) : body[i] \in Digits

Canon(txt) == IF txt[1] = "+" THEN Tail(txt) ELSE txt

\* where w splits into two integers with one space between
Splits(w) ==
    { k \in 2..(Len(w) - 1) :
        /\ w[k] = " "
        /\ IsInt(SubSeq(w, 1, k - 1))
        /\ IsInt(SubSeq(w, k + 1, Len(w))) }

\* C10 as stated: with a regulator bound, writing one integer sets the
\* voltage to exactly that value, writing two integers with a space
\* between them sets the range from the first to the second, any other
\* text sets nothing, and the write returns the length of the text.
C10_Original ==
    \A t \in Operators :
        Returned(t, "vref_uV_store") /\ ~IS_ERR(pwrseq.vref) =>
            LET w == Word(cur[t].buf)
                calls == cur[t].calls
                Sets(lo, hi) ==
                    /\ Len(calls) = 1
                    /\ calls[1].fn = "regulator_set_voltage"
                    /\ FmtInt(calls[1].a) = Canon(lo)
                    /\ FmtInt(calls[1].b) = Canon(hi)
            IN  /\ cur[t].ret = Len(cur[t].buf)
                /\ IF IsInt(w) THEN Sets(w, w)
                   ELSE IF Splits(w) # {}
                   THEN \E k \in Splits(w) :
                            Sets(SubSeq(w, 1, k - 1), SubSeq(w, k + 1, Len(w)))
                   ELSE calls = << >>

\* thread t has returned from power-off or from an off write
PoweredOff(t) ==
    \/ Returned(t, "power_off")
    \/ Returned(t, "pwr_gpio_store") /\ Word(cur[t].buf) \in OffWords

SleepsOf(calls) == SelectSeq(calls, LAMBDA c : c.fn = "usleep_range")

\* hi is twice lo, as numbers
IsTwice(lo, hi) ==
    /\ hi.hi = 2 * lo.hi + (2 * lo.lo) \div Half
    /\ hi.lo = (2 * lo.lo) % Half

\* C11 as stated: for every power-off delay d > 0, power-off and the
\* manual off write request one sleep of at least d and at most 2 * d
\* microseconds; for d = 0 they request no sleep.
C11_Original ==
    \A t \in Threads :
        PoweredOff(t) =>
            LET d == pwrseq.power_off_delay_us
                sl == SleepsOf(cur[t].calls)
            IN  IF d = U32Zero THEN sl = << >>
                ELSE /\ Len(sl) = 1
                     /\ sl[1].a = d
                     /\ IsTwice(d, sl[1].b)

\* C12 as stated: whenever clk_enabled is true the last call on the clock
\* was a clock-enable that succeeded; an operation whose clock-enable call
\* failed does not return with clk_enabled true.
C12_Original ==
    bound /\ pwrseq.clk_enabled =>
        /\ BetweenOps => hist.clk_last = "enable"
        /\ \A t \in Threads :
              Returned(t, cur[t].op) => ~EnableFailed(cur[t].calls)

\* the place of a call in the order write, sleep, clock call
Rank(c) ==
    CASE c.fn \in {"bitmap_alloc", "gpiod_set_array_value_cansleep"} -> 1
      [] c.fn \in {"msleep", "usleep_range"} -> 2
      [] OTHER -> 3

InOrder(calls) ==
    \A i, j \in 1..Len(calls) : i < j => Rank(calls[i]) <= Rank(calls[j])

\* calls has a reset-line write of value v to every line
Writes(calls, v) ==
    \E i \in 1..Len(calls) :
        /\ calls[i].fn = "gpiod_set_array_value_cansleep"
        /\ calls[i].a = Len(lines)
        /\ calls[i].b = IF v = 1 THEN bitmap_fill(Len(lines)) ELSE bitmap_zero(Len(lines))

\* C13: post-power-on first writes 0 to the reset lines (a write that is
\* not skipped leaves every line at 0) and then, when the post-power-on
\* delay is greater than 0, sleeps that many milliseconds before it
\* returns; with a delay of 0 it returns with no sleep.
C13_PostPowerOnDelay ==
    LET c == cur["host"]
        ms == pwrseq.post_power_on_delay_ms
        sl == SelectSeq(c.calls, LAMBDA x : x.fn = "msleep")
    IN  c.op = "post_power_on" =>
            /\ HasGpios => c.calls # << >> /\ c.calls[1].fn = "bitmap_alloc"
            /\ HasGpios /\ ~Skipped(c.calls) =>
                  Writes(c.calls, 0) /\ AllLines(lines, 0)
            /\ InOrder(c.calls)
            /\ ClkCalls(c.calls) = 0
            /\ pc["host"] # "ret" => sl = << >>
            /\ pc["host"] = "ret" =>
                  IF ms = U32Zero THEN sl = << >>
                  ELSE /\ Len(sl) = 1
                       /\ sl[1].a = ms
                       /\ c.calls[Len(c.calls)] = sl[1]

\* post-power-on has written 0 to the lines and slept its 10 ms
C13_Witness ==
    /\ HasGpios
    /\ Returned("host", "post_power_on")
    /\ Writes(cur["host"].calls, 0)
    /\ Len(lines) > 0
    /\ pwrseq.post_power_on_delay_ms = U32(0, 10)
    /\ Len(cur["host"].calls) = 3
    /\ cur["host"].calls[3] = Call("msleep", U32(0, 10), U32Zero)

\* C14: within one power-off the reset lines are written 1 first, then
\* comes the power-off delay when it is greater than 0, then the clock
\* disable: when the clock is disabled the write and the sleep of that
\* call are done.
C14_PowerOffOrder ==
    LET c == cur["host"]
        d == pwrseq.power_off_delay_us
        disabling ==
            \/ pc["host"] = "off_96"
            \/ \E i \in 1..Len(c.calls) : c.calls[i].fn = "clk_disable_unprepare"
    IN  c.op = "power_off" =>
            /\ InOrder(c.calls)
            /\ HasGpios => c.calls # << >> /\ c.calls[1].fn = "bitmap_alloc"
            /\ HasGpios /\ ~Skipped(c.calls) =>
                  Writes(c.calls, 1) /\ AllLines(lines, 1)
            /\ disabling /\ d # U32Zero =>
                  \E i \in 1..Len(c.calls) :
                      c.calls[i].fn = "usleep_range" /\ c.calls[i].a = d
            /\ pc["host"] \in {"off_96", "off_91"} => ClkCalls(c.calls) = 0

\* power-off has written 1 to the lines, slept and disabled the clock
C14_Witness ==
    /\ HasClk /\ HasGpios
    /\ Returned("host", "power_off")
    /\ Len(lines) > 0 /\ ~AllLines(cur["host"].snap.lines, 1)
    /\ Len(cur["host"].calls) = 4
    /\ cur["host"].calls[2].fn = "gpiod_set_array_value_cansleep"
    /\ cur["host"].calls[3].fn = "usleep_range"
    /\ cur["host"].calls[4].fn = "clk_disable_unprepare"
    /\ clk_count = 0 /\ ~pwrseq.clk_enabled

\* What each lifecycle callback makes of a state s (as Snap) and which
\* calls it makes, given how its clock-enable call (en_ok) and its bitmap
\* allocation (alloc_ok) turn out.
RefPre(s, en_ok, alloc_ok) ==
    LET need == ~IS_ERR(pwrseq.ext_clk) /\ ~s.clk_enabled
        s1 == IF need
              THEN [ s EXCEPT !.clk_count = clk_prepare_enable(@, en_ok),
                              !.clk_enabled = TRUE ]
              ELSE s
        c1 == IF need
              THEN << Call("clk_prepare_enable", 0, IF en_ok THEN 0 ELSE -1) >>
              ELSE << >>
        g == mmc_pwrseq_simple_set_gpios_value(pwrseq, s1.lines, 1, alloc_ok)
    IN  [ s |-> [ s1 EXCEPT !.lines = g.lines ], calls |-> c1 \o g.calls ]

RefPost(s, alloc_ok) ==
    LET g == mmc_pwrseq_simple_set_gpios_value(pwrseq, s.lines, 0, alloc_ok)
    IN  [ s |-> [ s EXCEPT !.lines = g.lines ],
          calls |-> g.calls \o SleepMs(pwrseq) ]

RefOff(s, alloc_ok) ==
    LET g == mmc_pwrseq_simple_set_gpios_value(pwrseq, s.lines, 1, alloc_ok)
        need == ~IS_ERR(pwrseq.ext_clk) /\ s.clk_enabled
        c3 == IF need THEN << Call("clk_disable_unprepare", 0, 0) >> ELSE << >>
    IN  [ s |-> [ s EXCEPT !.lines = g.lines,
                           !.clk_count = IF need THEN clk_disable_unprepare(@)
                                                 ELSE @,
                           !.clk_enabled = IF need THEN FALSE ELSE @ ],
          calls |-> g.calls \o SleepUs(pwrseq) \o c3 ]

\* thread t has ended in the state and with the calls of r
Did(t, r) == r = [ s |-> Snap, calls |-> cur[t].calls ]

\* C15: from every state a manual write of off or 0 makes the calls and
\* ends in the state of power-off, and a write of on or 1 makes the calls
\* and ends in the state of pre-power-on followed by post-power-on (the
\* primitives turning out the same way in both).
C15_ManualMatchesLifecycle ==
    /\ Returned("host", "pre_power_on") =>
          \E e, a \in BOOLEAN : Did("host", RefPre(cur["host"].snap, e, a))
    /\ Returned("host", "post_power_on") =>
          \E a \in BOOLEAN : Did("host", RefPost(cur["host"].snap, a))
    /\ Returned("host", "power_off") =>
          \E a \in BOOLEAN : Did("host", RefOff(cur["host"].snap, a))
    /\ \A t \in Operators :
          Returned(t, "pwr_gpio_store") =>
              /\ Word(cur[t].buf) \in OffWords =>
                    \E a \in BOOLEAN : Did(t, RefOff(cur[t].snap, a))
              /\ Word(cur[t].buf) \in OnWords =>
                    \E e, a1, a2 \in BOOLEAN :
                        LET r1 == RefPre(cur[t].snap, e, a1)
                            r2 == RefPost(r1.s, a2)
                        IN  Did(t, [ s |-> r2.s, calls |-> r1.calls \o r2.calls ])

\* an off write with a delay configured has written the lines, slept and
\* disabled the clock
C15_Witness ==
    /\ HasClk /\ HasGpios
    /\ Returned("op1", "pwr_gpio_store")
    /\ Word(cur["op1"].buf) \in OffWords
    /\ pwrseq.power_off_delay_us # U32Zero
    /\ Len(cur["op1"].calls) = 4
    /\ cur["op1"].calls[4].fn = "clk_disable_unprepare"

\* the last bind found a clock error other than -ENOENT
ClkRefused == probe_in.clk \notin {"ext_clock", "-ENOENT"}

\* the last bind found a reset-line error other than -ENOENT and -ENOSYS
GpiosRefused == probe_in.gpios \notin {"reset", "-ENOENT", "-ENOSYS", "NULL"}

\* C16: when the clock lookup fails with anything but -ENOENT, or the
\* reset-line lookup with anything but -ENOENT and -ENOSYS, bind returns
\* that error, and then the sequencer is not registered and neither the
\* pwr_gpio nor the vref_uV file is installed.
C16_BindFailure ==
    Probed /\ (ClkRefused \/ GpiosRefused) =>
        /\ probe_ret = IF ClkRefused THEN probe_in.clk ELSE probe_in.gpios
        /\ ~bound
        /\ ~registered
        /\ ~attr_pwr_gpio
        /\ ~attr_vref_uV

\* a bind has found its clock and then failed on the reset lines
C16_Witness ==
    /\ probe_in.kzalloc_ok
    /\ probe_in.clk = "ext_clock"
    /\ probe_in.gpios = "-EPROBE_DEFER"
    /\ probe_ret = "-EPROBE_DEFER"
    /\ ~bound /\ ~registered /\ ~attr_pwr_gpio /\ ~attr_vref_uV

\* C17 as stated: across binds and unbinds, whenever the sequencer is
\* registered the pwr_gpio file is installed; once bind has returned the
\* vref_uV file is installed exactly when a regulator was found; after
\* unbind the sequencer is not registered and neither file is installed.
C17_Original ==
    /\ registered => attr_pwr_gpio
    /\ bound /\ pc["bus"] = "idle" =>
          (attr_vref_uV <=> ~IS_ERR(pwrseq.vref))
    /\ ~bound => ~registered /\ ~attr_pwr_gpio /\ ~attr_vref_uV

Has(calls, fn) == \E i \in 1..Len(calls) : calls[i].fn = fn

\* C18: when the bitmap allocation of a reset-line write fails, that write
\* is skipped and every line keeps its value, nothing is reported to the
\* caller, and the rest of the operation still runs: power-off still
\* sleeps, disables the clock and clears clk_enabled, pre-power-on still
\* leaves the clock enabled, post-power-on still sleeps.
C18_AllocFailureSkips ==
    \A t \in Threads :
        LET c == cur[t]
            off == PoweredOff(t)
            on == Returned(t, "pwr_gpio_store") /\ Word(c.buf) \in OnWords
        IN  Skipped(c.calls) =>
            /\ \A i \in 1..Len(c.calls) :
                  c.calls[i].fn = "bitmap_alloc" /\ c.calls[i].b = 0 /\ i < Len(c.calls)
                  => c.calls[i + 1].fn # "gpiod_set_array_value_cansleep"
            /\ ~Has(c.calls, "gpiod_set_array_value_cansleep") =>
                  lines = c.snap.lines
            /\ Returned(t, c.op) =>
                  c.ret = IF IsLifecycle(c.op) THEN -1 ELSE Len(c.buf)
            /\ off =>
                  /\ pwrseq.power_off_delay_us # U32Zero => Has(c.calls, "usleep_range")
                  /\ ~pwrseq.clk_enabled
                  /\ HasClk /\ c.snap.clk_enabled =>
                        /\ Has(c.calls, "clk_disable_unprepare")
                        /\ clk_count = clk_disable_unprepare(c.snap.clk_count)
            /\ Returned(t, "pre_power_on") \/ on =>
                  /\ HasClk => pwrseq.clk_enabled
                  /\ HasClk /\ ~c.snap.clk_enabled =>
                        /\ Has(c.calls, "clk_prepare_enable")
                        /\ ~EnableFailed(c.calls) => clk_count = c.snap.clk_count + 1
            /\ Returned(t, "post_power_on") \/ on =>
                  (pwrseq.post_power_on_delay_ms # U32Zero => Has(c.calls, "msleep"))

\* a power-off whose allocation failed has left the lines at 0, slept and
\* disabled the clock
C18_Witness ==
    /\ HasClk /\ HasGpios
    /\ Returned("host", "power_off")
    /\ Skipped(cur["host"].calls)
    /\ Len(lines) > 0 /\ AllLines(lines, 0)
    /\ pwrseq.power_off_delay_us # U32Zero
    /\ Has(cur["host"].calls, "usleep_range")
    /\ cur["host"].snap.clk_enabled /\ ~pwrseq.clk_enabled
    /\ clk_count = 0

\* the callback that follows in the standard cycle
NextInCycle ==
    CASE hist.phase = "OFF" -> "pre_power_on"
      [] hist.phase = "POWERING" -> "post_power_on"
      [] hist.phase = "ON" -> "power_off"
      [] OTHER -> "none"

\* since a bind that found the clock stopped the callbacks have come in
\* the order of the cycle, the one now running included, with no
\* reset-line write skipped and no power-toggle sequence run
InCycle ==
    /\ hist.phase # "none"
    /\ NoToggleRunning
    /\ \/ cur["host"].op = "none"
       \/ cur["host"].op = NextInCycle /\ ~Skipped(cur["host"].calls)

NoEnableFailed == ~hist.enable_failed /\ ~EnableFailed(cur["host"].calls)

C20_OnlyClkEnabledChanges ==
    /\ cur["host"].op = "post_power_on" =>
          /\ pwrseq.clk_enabled = cur["host"].snap.clk_enabled
          /\ clk_count = cur["host"].snap.clk_count
          /\ ClkCalls(cur["host"].calls) = 0
    /\ bound /\ pc["bus"] = "idle" =>
          /\ pwrseq.ext_clk = probe_in.clk
          /\ pwrseq.reset_gpios = probe_in.gpios
          /\ pwrseq.vref = probe_in.vref
          /\ pwrseq.post_power_on_delay_ms = probe_in.ms
          /\ pwrseq.power_off_delay_us = probe_in.us
    /\ \A t \in Threads :
          IsLifecycle(cur[t].op) \/ cur[t].op \in {"pwr_gpio_show", "pwr_gpio_store"}
          => ~Has(cur[t].calls, "regulator_set_voltage")

\* post-power-on has returned on a sequencer with a clock enabled, a
\* regulator and both delays configured
C20_Witness ==
    /\ HasClk /\ HasGpios /\ ~IS_ERR(pwrseq.vref)
    /\ Returned("host", "post_power_on")
    /\ hist.phase = "POWERING"
    /\ pwrseq.clk_enabled /\ clk_count > 0
    /\ pwrseq.post_power_on_delay_ms # U32Zero
    /\ pwrseq.power_off_delay_us # U32Zero
====
